---------------------------- MODULE Spec2Model ----------------------------
(***************************************************************************)
(* The Luma events proxy: one serverless handler (src/api/events.js for    *)
(* Vercel, and the same code as a Netlify function) that gates a request,  *)
(* fetches the calendar's events upstream once, filters them by the CAISH  *)
(* keyword, sorts them by start time, drops those older than a week,       *)
(* truncates to the `limit` query parameter and answers with JSON.         *)
(***************************************************************************)
EXTENDS Integers, Sequences, FiniteSets, TLC

(***************************************************************************)
(* JavaScript values.  A string is a sequence of one-character strings, so *)
(* that toUpperCase, includes and parseInt work on characters.             *)
(***************************************************************************)
Undef == [t |-> "undefined"]

Null == [t |-> "null"]

Str(s) == [t |-> "string", s |-> s]

Num(n) == [t |-> "number", n |-> n]

List(l) == [t |-> "array", l |-> l]

Obj(r) == [t |-> "object", o |-> r]

\* The ISO-8601 text of the instant ms (milliseconds since the model's epoch).
DateStr(ms) == [t |-> "string", s |-> <<"T">>, iso |-> ms]

\* The number NaN: an Invalid Date's time value, parseInt of a non-number.
NaN == [t |-> "NaN"]

\* ToBoolean: what `x || y`, `x && y`, `!x`, `x ? :` and filter(Boolean) test.
Truthy(v) ==
    CASE v.t = "undefined" -> FALSE
      [] v.t = "null" -> FALSE
      [] v.t = "string" -> v.s # <<>>
      [] v.t = "number" -> v.n # 0
      [] v.t = "NaN" -> FALSE
      [] OTHER -> TRUE

\* a || b
Or(a, b) == IF Truthy(a) THEN a ELSE b

\* v.k, for a v that is neither null nor undefined (those throw a TypeError).
Get(v, k) == IF v.t = "object" /\ k \in DOMAIN v.o THEN v.o[k] ELSE Undef

\* v?.k
OptGet(v, k) == IF v.t \in {"undefined", "null"} THEN Undef ELSE Get(v, k)

Upper(c) ==
    CASE c = "a" -> "A"
      [] c = "c" -> "C"
      [] c = "h" -> "H"
      [] c = "i" -> "I"
      [] c = "s" -> "S"
      [] c = "x" -> "X"
      [] OTHER -> c

\* String.prototype.toUpperCase
toUpperCase(s) == [i \in 1..Len(s) |-> Upper(s[i])]

\* String.prototype.includes
includes(s, k) ==
    \E i \in 0..(Len(s) - Len(k)) : SubSeq(s, i + 1, i + Len(k)) = k

(***************************************************************************)
(* The helpers of the handler.                                             *)
(***************************************************************************)
CAISH_TAG == <<"C", "A", "I", "S", "H">>

normalizeTagName(tag) ==
    IF tag.t = "string" THEN tag.s
    ELSE IF Truthy(tag) /\ Get(tag, "name").t = "string"
         THEN Get(tag, "name").s
         ELSE <<>>

extractTagNames(tags) ==
    LET names == [i \in 1..Len(tags) |-> normalizeTagName(tags[i])]
        kept == SelectSeq(names, LAMBDA n : n # <<>>)
    IN  [i \in 1..Len(kept) |-> toUpperCase(kept[i])]

hasCaishtag(tagNames) ==
    \E i \in 1..Len(tagNames) : includes(tagNames[i], CAISH_TAG)

(***************************************************************************)
(* The tag catalog: tagDictionary, a Map from tag identifier to tag name.  *)
(***************************************************************************)
\* const tagList = data.tags || data.tag_list || []
tagListOf(data) == Or(Or(Get(data, "tags"), Get(data, "tag_list")), List(<<>>))

\* An identifier read from api_id alone.
tagIdOfApiIdOnly(tag) == OptGet(tag, "api_id")

\* const id = tag?.api_id || tag?.id
tagIdOf(tag) == Or(OptGet(tag, "api_id"), OptGet(tag, "id"))

\* if (id && name) tagDictionary.set(id, name)
setTag(dict, tag) ==
    LET id == tagIdOf(tag)
        name == normalizeTagName(tag)
    IN  IF Truthy(id) /\ name # <<>>
        THEN [k \in DOMAIN dict \cup {id} |-> IF k = id THEN name ELSE dict[k]]
        ELSE dict

\* tagList.forEach(...) over the elements of the array, from an empty Map.
RECURSIVE buildDictionary(_, _)
buildDictionary(dict, tags) ==
    IF tags = <<>> THEN dict
    ELSE buildDictionary(setTag(dict, Head(tags)), Tail(tags))

(***************************************************************************)
(* The keyword filter: the callback of the first events.filter.            *)
(***************************************************************************)
\* const event = entry.event || entry
eventOf(entry) == Or(Get(entry, "event"), entry)

\* Inline tags read from the event alone.
tagsOfEventOnly(entry) == Or(Get(eventOf(entry), "tags"), List(<<>>))

\* event.tags || entry.tags || []
tagsOf(entry) ==
    Or(Or(Get(eventOf(entry), "tags"), Get(entry, "tags")), List(<<>>))

\* event.tag_ids || entry.tag_ids || []
tagIdsOf(entry) ==
    Or(Or(Get(eventOf(entry), "tag_ids"), Get(entry, "tag_ids")), List(<<>>))

\* tagIds.map(id => tagDictionary.get(id)).filter(Boolean).map(toUpperCase)
resolvedTagNames(tagIds, dict) ==
    LET known == SelectSeq(tagIds, LAMBDA id : id \in DOMAIN dict)
    IN  [i \in 1..Len(known) |-> toUpperCase(dict[known[i]])]

\* The callback's outcome on one entry: "keep", "drop", or "throw" where the
\* code raises a TypeError (entry.event of null, .map of a non-array,
\* .toUpperCase of a non-string).  The || of the return short-circuits.
keywordTest(entry, dict) ==
    IF entry.t \in {"undefined", "null"} THEN "throw"
    ELSE LET tags == tagsOf(entry)
             tagIds == tagIdsOf(entry)
             name == Or(Get(eventOf(entry), "name"), Str(<<>>))
             description == Or(Get(eventOf(entry), "description"), Str(<<>>))
         IN  IF tags.t # "array" \/ tagIds.t # "array" THEN "throw"
             ELSE IF hasCaishtag(extractTagNames(tags.l)
                                 \o resolvedTagNames(tagIds.l, dict))
                  THEN "keep"
             ELSE IF name.t # "string" THEN "throw"
             ELSE IF includes(toUpperCase(name.s), CAISH_TAG) THEN "keep"
             ELSE IF description.t # "string" THEN "throw"
             ELSE IF includes(toUpperCase(description.s), CAISH_TAG) THEN "keep"
             ELSE "drop"

\* A filter that returns the unwrapped event instead of the entry.
keywordFilterUnwrapped(events, dict) ==
    LET kept == SelectSeq(events, LAMBDA entry : keywordTest(entry, dict) = "keep")
    IN  [i \in 1..Len(kept) |-> eventOf(kept[i])]

\* events.filter(callback) of the keyword stage, when no callback throws.
keywordFilter(events, dict) ==
    SelectSeq(events, LAMBDA entry : keywordTest(entry, dict) = "keep")

(***************************************************************************)
(* The chronological sort.                                                 *)
(***************************************************************************)
\* new Date(v).getTime(): the instant an ISO text denotes, a number as it is,
\* 0 for null, NaN (Invalid Date) for undefined and for any other text.
newDate(v) ==
    CASE v.t = "number" -> v
      [] v.t = "null" -> Num(0)
      [] v.t = "string" -> (IF "iso" \in DOMAIN v THEN Num(v.iso) ELSE NaN)
      [] OTHER -> NaN

\* new Date((a.event || a).start_at || (a.event || a).start_time)
startDate(entry) ==
    newDate(Or(Get(eventOf(entry), "start_at"), Get(eventOf(entry), "start_time")))

\* The comparator of events.sort: dateA - dateB.
compareDates(a, b) ==
    IF startDate(a) = NaN \/ startDate(b) = NaN THEN NaN
    ELSE Num(startDate(a).n - startDate(b).n)

\* What the sort makes of the comparator's answer: NaN counts as 0.
sortCompare(a, b) == IF compareDates(a, b) = NaN THEN 0 ELSE compareDates(a, b).n

\* s with x put at the place a scan from the right finds for it: behind the
\* last element that is not greater than x.
RECURSIVE insertFromRight(_, _)
insertFromRight(s, x) ==
    IF s # <<>> /\ sortCompare(s[Len(s)], x) > 0
    THEN insertFromRight(SubSeq(s, 1, Len(s) - 1), x) \o <<s[Len(s)]>>
    ELSE s \o <<x>>

\* Insertion sort of the elements of rest into the sorted prefix done.
RECURSIVE insertionSort(_, _)
insertionSort(done, rest) ==
    IF rest = <<>> THEN done
    ELSE insertionSort(insertFromRight(done, Head(rest)), Tail(rest))

\* The place a binary search finds for the pivot in s, between left and right.
RECURSIVE searchPlace(_, _, _, _)
searchPlace(s, pivot, left, right) ==
    IF left < right
    THEN LET mid == left + ((right - left) \div 2)
         IN  IF sortCompare(pivot, s[mid + 1]) < 0
             THEN searchPlace(s, pivot, left, mid)
             ELSE searchPlace(s, pivot, mid + 1, right)
    ELSE left

\* Binary insertion sort of the elements of rest into the sorted prefix done.
RECURSIVE binaryInsertionSort(_, _)
binaryInsertionSort(done, rest) ==
    IF rest = <<>> THEN done
    ELSE LET place == searchPlace(done, Head(rest), 0, Len(done))
         IN  binaryInsertionSort(SubSeq(done, 1, place) \o <<Head(rest)>>
                                     \o SubSeq(done, place + 1, Len(done)),
                                 Tail(rest))

\* TimSort on an array shorter than its minimal run: the leading run is
\* found (ascending, or strictly descending and then reversed) and the
\* elements behind it are put in by binary insertion.
timSort(events) ==
    LET n == Len(events)
        descending == sortCompare(events[2], events[1]) < 0
        continues(k) == IF descending
                        THEN sortCompare(events[k], events[k - 1]) < 0
                        ELSE sortCompare(events[k], events[k - 1]) >= 0
        run == CHOOSE r \in 2..n :
                   /\ \A k \in 3..r : continues(k)
                   /\ (r < n => ~continues(r + 1))
        first == IF descending THEN [i \in 1..run |-> events[run + 1 - i]]
                 ELSE SubSeq(events, 1, run)
    IN  IF n < 2 THEN events
        ELSE binaryInsertionSort(first, SubSeq(events, run + 1, n))

\* A sort that leaves the array as it is.
sortOutcomesUnsorted(events) == {events}

\* Array.prototype.sort with that comparator.  With a comparator that returns
\* NaN the order is implementation-defined (ECMAScript, Array.prototype.sort);
\* the outcomes are those of the sorts Node's engine has used for an array
\* this short: TimSort, and before it insertion sort.
sortOutcomes(events) == {timSort(events), insertionSort(<<>>, events)}

(***************************************************************************)
(* The recency filter and the limit.                                       *)
(***************************************************************************)
\* 7 * 24 * 60 * 60 * 1000
oneWeekMs == 7 * 24 * 60 * 60 * 1000

\* A comparison that drops the event starting at the cutoff.
isRecentStrict(entry, cutoff) ==
    startDate(entry) # NaN /\ startDate(entry).n > cutoff

\* startDate >= oneWeekAgo: false for an Invalid Date.
isRecent(entry, cutoff) ==
    startDate(entry) # NaN /\ startDate(entry).n >= cutoff

recencyFilter(events, cutoff) ==
    SelectSeq(events, LAMBDA entry : isRecent(entry, cutoff))

Digits == <<"0", "1", "2", "3", "4", "5", "6", "7", "8", "9">>

IsDigit(c) == \E d \in 1..10 : Digits[d] = c

DigitValue(c) == (CHOOSE d \in 1..10 : Digits[d] = c) - 1

\* The longest prefix of s made of digits.
RECURSIVE digitPrefix(_)
digitPrefix(s) ==
    IF s # <<>> /\ IsDigit(Head(s)) THEN <<Head(s)>> \o digitPrefix(Tail(s))
    ELSE <<>>

RECURSIVE decimalValue(_, _)
decimalValue(acc, ds) ==
    IF ds = <<>> THEN acc
    ELSE decimalValue(10 * acc + DigitValue(Head(ds)), Tail(ds))

RECURSIVE trimStart(_)
trimStart(s) == IF s # <<>> /\ Head(s) = " " THEN trimStart(Tail(s)) ELSE s

\* parseInt(s, 10): leading white space skipped, an optional sign, then the
\* longest run of digits; what follows the digits is ignored; NaN without digits.
parseInt(s) ==
    LET t == trimStart(s)
        signed == t # <<>> /\ Head(t) \in {"-", "+"}
        ds == digitPrefix(IF signed THEN Tail(t) ELSE t)
    IN  IF ds = <<>> THEN NaN
        ELSE IF signed /\ Head(t) = "-" THEN Num(0 - decimalValue(0, ds))
        ELSE Num(decimalValue(0, ds))

\* const limit = req.query.limit ? parseInt(req.query.limit, 10) : null
limitOf(query) ==
    IF Truthy(Get(query, "limit")) THEN parseInt(Get(query, "limit").s) ELSE Null

\* A slice one element too long.
applyLimitOffByOne(events, limit) ==
    IF Truthy(limit) /\ limit.n > 0
    THEN SubSeq(events, 1, IF limit.n + 1 < Len(events) THEN limit.n + 1 ELSE Len(events))
    ELSE events

\* if (limit && limit > 0) events = events.slice(0, limit)
applyLimit(events, limit) ==
    IF Truthy(limit) /\ limit.n > 0
    THEN SubSeq(events, 1, IF limit.n < Len(events) THEN limit.n ELSE Len(events))
    ELSE events

(***************************************************************************)
(* The responses the handler can send.                                     *)
(***************************************************************************)
methodNotAllowed == [status |-> 405, body |-> [error |-> "Method not allowed"]]

configurationError ==
    [status |-> 500, body |-> [error |-> "API configuration error"]]

\* An upstream error answered with 500 whatever the upstream status.
upstreamErrorAs500(status, errorText) ==
    [status |-> 500,
     body |-> [error |-> "Failed to fetch events from Luma", details |-> errorText]]

upstreamError(status, errorText) ==
    [status |-> status,
     body |-> [error |-> "Failed to fetch events from Luma", details |-> errorText]]

\* A catch block that answers 200 with an empty list.
internalErrorPartial(message) ==
    [status |-> 200, body |-> [events |-> <<>>, count |-> 0, message |-> message]]

internalError(message) ==
    [status |-> 500, body |-> [error |-> "Internal server error", message |-> message]]

success(events, fetchedAt) ==
    [status |-> 200,
     body |-> [events |-> events, count |-> Len(events),
               fetched_at |-> DateStr(fetchedAt)]]

\* A gate that lets POST through.
methodRejectedLax(request) == request.method \notin {"GET", "POST"}

\* req.method !== 'GET'
methodRejected(request) == request.method # "GET"

\* A test that takes an empty key for a key.
keyMissingOnlyAbsent(key) == key.t = "undefined"

\* !API_KEY
keyMissing(key) == ~Truthy(key)

\* response.ok: a status in the range 200-299.
responseOk(status) == status \in 200..299

\* let events = data.entries || data.events || []
entriesOf(data) == Or(Or(Get(data, "entries"), Get(data, "events")), List(<<>>))

(***************************************************************************)
(* The inputs: instants, strings, entries, tag lists.                      *)
(***************************************************************************)
MaxTagged == 2   \* entries of an upstream answer of the keyword scenarios
MaxDated == 3    \* entries of an upstream answer of the date scenarios
MaxTags == 2     \* tags of an upstream tag list of the catalog scenarios
MaxTick == 1     \* milliseconds between two readings of the clock

DayMs == 24 * 60 * 60 * 1000

\* The clock when the request arrives; the instants events start at.
ClockBase == 8 * DayMs
tEightDaysAgo == ClockBase - 8 * DayMs
tJustOverAWeekAgo == ClockBase - oneWeekMs - 1
tAWeekAgo == ClockBase - oneWeekMs
tSixDaysAgo == ClockBase - 6 * DayMs
tTomorrow == ClockBase + DayMs

sCaish == <<"c", "a", "i", "s", "h">>
sCaishtown == <<"x", "C", "a", "i", "S", "h", "x">>
sCai == <<"C", "A", "I">>
sTalk == <<"t", "a", "l", "k">>
sRoom == <<"r", "o", "o", "m">>

\* Entries that differ in where the keyword can be found; all start tomorrow.
TaggedEntries ==
    LET at == DateStr(tTomorrow)
    IN  { Obj([name |-> Str(sCaish), start_at |-> at, location |-> Str(sRoom)]),
          Obj([name |-> Str(sTalk), description |-> Str(sCaishtown), start_at |-> at]),
          Obj([name |-> Str(sTalk), start_at |-> at, location |-> Str(sRoom)]),
          Obj([tags |-> List(<<Str(sCai)>>), start_at |-> at]),
          Obj([tags |-> List(<<Null, Obj([name |-> Str(sCaishtown)])>>), start_at |-> at]),
          Obj([tag_ids |-> List(<<Num(5)>>), start_at |-> at]),
          Obj([tag_ids |-> List(<<Num(99)>>), start_at |-> at]),
          Obj([event |-> Obj([name |-> Str(sCaishtown), start_at |-> at])]),
          Obj([event |-> Obj([name |-> Str(sTalk), start_at |-> at]),
               tags |-> List(<<Str(sCaish)>>)]),
          Obj([event |-> Obj([tags |-> List(<<>>), start_at |-> at]),
               tags |-> List(<<Str(sCaish)>>)]),
          Obj([event |-> Obj([start_at |-> at, tag_ids |-> List(<<Num(99)>>)]),
               tag_ids |-> List(<<Num(5)>>)]),
          Obj([event |-> Obj([start_at |-> at]), name |-> Str(sCaish),
               description |-> Str(sCaish)]),
          Obj([event |-> Obj([start_at |-> at]), tag_ids |-> List(<<Num(5)>>)]),
          Obj([tags |-> List(<<Str(sCaish)>>), name |-> Num(7), start_at |-> at]),
          Obj([name |-> Num(7), start_at |-> at]),
          Obj([tag_ids |-> Num(5), start_at |-> at]),
          Null }

\* Entries that all carry the keyword and differ in their start.
DatedEntries ==
    { Obj([name |-> Str(sCaish), start_at |-> DateStr(tEightDaysAgo)]),
      Obj([name |-> Str(sCaish), start_at |-> DateStr(tJustOverAWeekAgo)]),
      Obj([name |-> Str(sCaish), start_at |-> DateStr(tAWeekAgo),
           start_time |-> DateStr(tEightDaysAgo)]),
      Obj([name |-> Str(sCaish), start_time |-> DateStr(tSixDaysAgo)]),
      Obj([event |-> Obj([name |-> Str(sCaish), start_at |-> DateStr(tTomorrow)]),
           start_at |-> DateStr(tEightDaysAgo)]),
      Obj([name |-> Str(sCaish), start_at |-> Str(<<"t", "b", "d">>)]) }

\* The entries of a top-level tag list.
CatalogTags ==
    { Obj([api_id |-> Num(5), name |-> Str(sCaishtown)]),
      Obj([api_id |-> Num(5), name |-> Str(sTalk)]),
      Obj([id |-> Num(5), name |-> Str(sCaish)]),
      Obj([api_id |-> Num(0), id |-> Num(99), name |-> Str(sCaish)]),
      Obj([name |-> Str(sCaish)]),
      Obj([api_id |-> Num(5)]),
      Obj([api_id |-> Num(5), name |-> Num(7)]),
      Str(sCaish),
      Null }

\* The values of the `limit` query parameter.
LimitValues ==
    { Undef, Str(<<>>), Str(<<"0">>), Str(<<"-", "1">>), Str(<<"a", "b", "c">>),
      Str(<<"1">>), Str(<<"2">>), Str(<<"1", "0">>), Str(<<"+", "2">>),
      Str(<<" ", "2">>), Str(<<"2", "x">>), Str(<<"x", "2">>) }

SeqsUpTo(S, n) == UNION {[1..k -> S] : k \in 0..n}

(***************************************************************************)
(* The worlds a request can run in: the request, the configured key, the   *)
(* answer the upstream API will give, and the clock.                       *)
(***************************************************************************)
Request(method, limit) == [method |-> method, query |-> Obj([limit |-> limit])]

apiKeySet == Str(<<"k", "e", "y">>)

Answer(data) ==
    [transport |-> "ok", status |-> 200, textOk |-> TRUE, text |-> "",
     jsonOk |-> TRUE, data |-> data]

World(request, key, answer, time) ==
    [request |-> request, key |-> key, answer |-> answer, time |-> time]

caishCatalogTag == Obj([api_id |-> Num(5), name |-> Str(sCaishtown)])

KeywordWorlds ==
    { World(Request("GET", Undef), apiKeySet,
            Answer(Obj([entries |-> List(es), tags |-> tags])), ClockBase) :
        es \in SeqsUpTo(TaggedEntries, MaxTagged),
        tags \in { Undef, List(<<caishCatalogTag>>),
                   List(<<Obj([api_id |-> Num(5), name |-> Str(sTalk)])>>) } }

DateWorlds ==
    { World(Request("GET", Undef), apiKeySet,
            Answer(Obj([entries |-> List(es)])), time) :
        es \in SeqsUpTo(DatedEntries, MaxDated),
        time \in {ClockBase, ClockBase + 1} }

\* k matching entries, the later in the list the earlier its start.
upcoming(k) ==
    [i \in 1..k |-> Obj([name |-> Str(sCaish), start_at |-> DateStr(tTomorrow + k - i),
                         location |-> Str(sRoom)])]

LimitWorlds ==
    { World(Request("GET", limit), apiKeySet,
            Answer(Obj([entries |-> List(upcoming(k))])), ClockBase) :
        k \in 0..MaxDated, limit \in LimitValues }

CatalogWorlds ==
    { World(Request("GET", Undef), apiKeySet,
            Answer(Obj([entries |-> List(<<Obj([tag_ids |-> List(<<Num(5)>>),
                                                start_at |-> DateStr(tTomorrow)]),
                                           Obj([tag_ids |-> List(<<Num(99)>>),
                                                start_at |-> DateStr(tTomorrow)])>>),
                        tags |-> tags, tag_list |-> tagList])),
            ClockBase) :
        tags \in {Undef, Obj([name |-> Str(sCaish)])}
                 \cup {List(ts) : ts \in SeqsUpTo(CatalogTags, MaxTags)},
        tagList \in {Undef, List(<<Obj([id |-> Num(5), name |-> Str(sCaish)])>>)} }

Answers ==
    { [transport |-> "error", status |-> 0, textOk |-> FALSE, text |-> "",
       jsonOk |-> FALSE, data |-> Undef],
      [transport |-> "ok", status |-> 404, textOk |-> TRUE, text |-> "not found",
       jsonOk |-> FALSE, data |-> Undef],
      [transport |-> "ok", status |-> 503, textOk |-> FALSE, text |-> "",
       jsonOk |-> FALSE, data |-> Undef],
      [transport |-> "ok", status |-> 200, textOk |-> TRUE, text |-> "<html>",
       jsonOk |-> FALSE, data |-> Undef],
      Answer(Null),
      Answer(Obj([entries |-> Obj([name |-> Str(sCaish)])])),
      Answer(Obj([tags |-> List(<<caishCatalogTag>>)])),
      Answer(Obj([events |-> List(upcoming(2))])) }

GateWorlds ==
    { World(Request(method, limit), key, answer, ClockBase) :
        method \in {"GET", "POST", "OPTIONS"},
        limit \in {Undef, Str(<<"1">>)},
        key \in {Undef, Str(<<>>), apiKeySet},
        answer \in Answers }

Worlds == KeywordWorlds \cup DateWorlds \cup LimitWorlds \cup CatalogWorlds \cup GateWorlds

(***************************************************************************)
(* The handler.                                                            *)
(***************************************************************************)
VARIABLES
    pc,             \* where the handler is: idle, awaitFetch, awaitText, awaitJson, done
    req,            \* the request
    apiKey,         \* process.env.LUMA_API_KEY
    upstream,       \* what the upstream API answers
    clock,          \* the clock
    upstreamCalls,  \* the calls of fetch made
    responses,      \* the responses sent
    tagDictionary,  \* the Map of the request
    matched,        \* events after the keyword filter
    sorted,         \* events after the sort
    now,            \* const now = new Date(), as an instant
    oneWeekAgo,     \* the cutoff of the recency filter
    recent          \* events after the recency filter

vars == <<pc, req, apiKey, upstream, clock, upstreamCalls, responses,
          tagDictionary, matched, sorted, now, oneWeekAgo, recent>>

locals == <<tagDictionary, matched, sorted, now, oneWeekAgo, recent>>

world == <<req, apiKey, upstream>>

Init ==
    /\ \E w \in Worlds :
        /\ req = w.request
        /\ apiKey = w.key
        /\ upstream = w.answer
        /\ clock = w.time
    /\ pc = "idle"
    /\ upstreamCalls = 0
    /\ responses = <<>>
    /\ tagDictionary = <<>>
    /\ matched = <<>>
    /\ sorted = <<>>
    /\ now = 0
    /\ oneWeekAgo = 0
    /\ recent = <<>>

\* return res.status(...).json(...)
Respond(response) ==
    /\ responses' = Append(responses, response)
    /\ pc' = "done"

\* if (req.method !== 'GET') return 405
MethodNotAllowed ==
    /\ pc = "idle"
    /\ methodRejected(req)
    /\ Respond(methodNotAllowed)
    /\ UNCHANGED <<world, clock, upstreamCalls, locals>>

\* if (!API_KEY) return 500
ConfigurationError ==
    /\ pc = "idle"
    /\ ~methodRejected(req)
    /\ keyMissing(apiKey)
    /\ Respond(configurationError)
    /\ UNCHANGED <<world, clock, upstreamCalls, locals>>

\* const response = await fetch(...): the call is issued, the handler waits.
Fetch ==
    /\ pc = "idle"
    /\ ~methodRejected(req)
    /\ ~keyMissing(apiKey)
    /\ upstreamCalls' = upstreamCalls + 1
    /\ pc' = "awaitFetch"
    /\ UNCHANGED <<world, clock, responses, locals>>

\* fetch rejects (a transport failure): the catch block answers.
FetchFails ==
    /\ pc = "awaitFetch"
    /\ upstream.transport = "error"
    /\ Respond(internalError("fetch failed"))
    /\ UNCHANGED <<world, clock, upstreamCalls, locals>>

\* fetch resolves: !response.ok awaits response.text(), else response.json().
FetchResolves ==
    /\ pc = "awaitFetch"
    /\ upstream.transport = "ok"
    /\ pc' = IF responseOk(upstream.status) THEN "awaitJson" ELSE "awaitText"
    /\ UNCHANGED <<world, clock, upstreamCalls, responses, locals>>

\* The error body is read and the upstream status is passed on; a body that
\* cannot be read rejects response.text(), and the catch block answers.
UpstreamError ==
    /\ pc = "awaitText"
    /\ Respond(IF upstream.textOk
               THEN upstreamError(upstream.status, upstream.text)
               ELSE internalError("body unreadable"))
    /\ UNCHANGED <<world, clock, upstreamCalls, locals>>

\* response.json() rejects: the body is not JSON.
JsonFails ==
    /\ pc = "awaitJson"
    /\ ~upstream.jsonOk
    /\ Respond(internalError("Unexpected token"))
    /\ UNCHANGED <<world, clock, upstreamCalls, locals>>

\* What the synchronous pipeline throws on data, "" when it throws nothing.
pipelineThrows(data) ==
    IF data.t \in {"undefined", "null"} THEN "Cannot read properties of null"
    ELSE IF tagListOf(data).t # "array" THEN "tagList.forEach is not a function"
    ELSE IF entriesOf(data).t # "array" THEN "events.filter is not a function"
    ELSE IF \E i \in 1..Len(entriesOf(data).l) :
                keywordTest(entriesOf(data).l[i],
                            buildDictionary(<<>>, tagListOf(data).l)) = "throw"
         THEN "TypeError in the filter callback"
    ELSE ""

\* response.json() resolves and the pipeline throws: the catch block answers.
PipelineFails ==
    /\ pc = "awaitJson"
    /\ upstream.jsonOk
    /\ pipelineThrows(upstream.data) # ""
    /\ Respond(internalError(pipelineThrows(upstream.data)))
    /\ tagDictionary' =
           IF upstream.data.t = "object" /\ tagListOf(upstream.data).t = "array"
           THEN buildDictionary(<<>>, tagListOf(upstream.data).l)
           ELSE tagDictionary
    /\ UNCHANGED <<world, clock, upstreamCalls, matched, sorted, now, oneWeekAgo, recent>>

\* response.json() resolves and the pipeline completes: catalog, keyword
\* filter, sort, recency filter, limit, 200.
PipelineCompletes ==
    /\ pc = "awaitJson"
    /\ upstream.jsonOk
    /\ pipelineThrows(upstream.data) = ""
    /\ tagDictionary' = buildDictionary(<<>>, tagListOf(upstream.data).l)
    /\ matched' = keywordFilter(entriesOf(upstream.data).l, tagDictionary')
    /\ sorted' \in sortOutcomes(matched')
    /\ now' = clock
    /\ oneWeekAgo' = now' - oneWeekMs
    /\ recent' = recencyFilter(sorted', oneWeekAgo')
    /\ \E tick \in 0..MaxTick : clock' = clock + tick
    /\ Respond(success(applyLimit(recent', limitOf(req.query)), clock'))
    /\ UNCHANGED <<world, upstreamCalls>>

Next ==
    \/ MethodNotAllowed
    \/ ConfigurationError
    \/ Fetch
    \/ FetchFails
    \/ FetchResolves
    \/ UpstreamError
    \/ JsonFails
    \/ PipelineFails
    \/ PipelineCompletes

Spec == Init /\ [][Next]_vars

(***************************************************************************)
(* The claims.                                                             *)
(***************************************************************************)
\* The request is a GET and a key is configured: the upstream call is made.
Authorized == req.method = "GET" /\ apiKey.t = "string" /\ apiKey.s # <<>>

Done == pc = "done"

\* The response of a finished request.
Response == responses[1]

Is200 == Done /\ Response.status = 200

\* C1: a request whose method is not GET, with or without a key, is answered
\* 405 {error: "Method not allowed"}, once, and no upstream call is ever made
\* for it: the handler never waits on the upstream.
C1_NonGetIs405 ==
    req.method # "GET" =>
        /\ upstreamCalls = 0
        /\ pc \in {"idle", "done"}
        /\ Done => responses =
               <<[status |-> 405, body |-> [error |-> "Method not allowed"]]>>

C1_Witness ==
    /\ Done
    /\ req.method = "POST"
    /\ apiKey = apiKeySet
    /\ upstream.transport = "ok"

\* C2: a GET handled while LUMA_API_KEY is absent or empty gets exactly one
\* response, 500 {error: "API configuration error"}, and no upstream call is
\* attempted: the key is tested before any network I/O.
C2_MissingKeyIs500 ==
    (req.method = "GET" /\ (apiKey = Undef \/ apiKey = Str(<<>>))) =>
        /\ upstreamCalls = 0
        /\ pc \in {"idle", "done"}
        /\ Done => responses =
               <<[status |-> 500, body |-> [error |-> "API configuration error"]]>>

C2_Witness ==
    /\ Done
    /\ req.method = "GET"
    /\ apiKey = Str(<<>>)
    /\ Len(responses) = 1

\* C3: when the upstream call returns a non-success status S with body text B,
\* the response is S {error: "Failed to fetch events from Luma", details: B},
\* exactly one upstream call was made, and the pipeline never ran.
C3_UpstreamErrorPassedOn ==
    (Done /\ Authorized /\ upstream.transport = "ok"
          /\ upstream.status \notin 200..299 /\ upstream.textOk) =>
        /\ responses =
               <<[status |-> upstream.status,
                  body |-> [error |-> "Failed to fetch events from Luma",
                            details |-> upstream.text]]>>
        /\ upstreamCalls = 1
        /\ tagDictionary = <<>> /\ matched = <<>> /\ sorted = <<>> /\ recent = <<>>

C3_Witness ==
    /\ Done
    /\ Authorized
    /\ upstream.status = 404
    /\ upstream.text = "not found"
    /\ Response.status = 404

\* The upstream entries of the request.
Entries == entriesOf(upstream.data).l

\* s contains the keyword, whatever the case of its letters.
HasKeyword(s) ==
    \E i \in 1..Len(s) : i + 4 <= Len(s)
        /\ s[i] \in {"c", "C"} /\ s[i + 1] \in {"a", "A"} /\ s[i + 2] \in {"i", "I"}
        /\ s[i + 3] \in {"s", "S"} /\ s[i + 4] \in {"h", "H"}

\* Where the claims read an entry's attributes: entry.event when present.
Attrs(entry) ==
    IF entry.t = "object" /\ "event" \in DOMAIN entry.o THEN entry.o.event ELSE entry

Present(obj, k) == obj.t = "object" /\ k \in DOMAIN obj.o

\* The elements of the list attribute k of obj; none when it is missing.
Elements(obj, k) ==
    IF Present(obj, k) /\ obj.o[k].t = "array"
    THEN {obj.o[k].l[i] : i \in 1..Len(obj.o[k].l)}
    ELSE {}

\* The text of attribute k of obj; empty when it is missing or no text.
Text(obj, k) ==
    IF Present(obj, k) /\ obj.o[k].t = "string" THEN obj.o[k].s ELSE <<>>

\* The name of an inline tag: the string itself, or the object's name.
InlineName(tag) == IF tag.t = "string" THEN tag.s ELSE Text(tag, "name")

\* One of the four signals carries the keyword, with the inline tags read
\* from tagsFrom and the tag ids from idsFrom.
Signal(entry, tagsFrom, idsFrom) ==
    \/ \E tag \in Elements(tagsFrom, "tags") : HasKeyword(InlineName(tag))
    \/ \E id \in Elements(idsFrom, "tag_ids") :
           id \in DOMAIN tagDictionary /\ HasKeyword(tagDictionary[id])
    \/ HasKeyword(Text(Attrs(entry), "name"))
    \/ HasKeyword(Text(Attrs(entry), "description"))

\* C4 as stated: an entry is kept by the keyword stage if and only if an
\* inline tag name, the catalog name of one of its tag_ids, the event name or
\* the event description contains "CAISH" in any case, all four read from
\* entry.event when present, else from the entry.
C4_KeptIffSignal ==
    Is200 =>
        matched = SelectSeq(Entries,
                            LAMBDA e : Signal(e, Attrs(e), Attrs(e)))

\* Where the code reads tags (or tag_ids): entry.event when it has them,
\* else the entry itself.
Holder(entry, k) == IF Present(Attrs(entry), k) THEN Attrs(entry) ELSE entry

\* C4 as amended: the same, with tags and tag_ids read from entry.event when
\* entry.event has them and else from the entry itself (name and description
\* are read from entry.event alone when it is present).
C4_KeptIffSignalWithFallback ==
    Is200 =>
        matched = SelectSeq(Entries,
                            LAMBDA e : Signal(e, Holder(e, "tags"), Holder(e, "tag_ids")))

\* A wrapped entry whose only signal is a tag on the wrapper is kept, next to
\* one kept for the catalog name of its tag id; something else is dropped.
C4_Witness ==
    /\ Is200
    /\ \E i \in 1..Len(matched) :
           /\ Present(matched[i], "event")
           /\ ~Present(Attrs(matched[i]), "tags")
           /\ Present(matched[i], "tags")
           /\ ~HasKeyword(Text(Attrs(matched[i]), "name"))
    /\ Len(matched) < Len(Entries)

\* The start timestamp of the claims: start_at if present, else start_time,
\* read from entry.event when present, else from the entry.
StartText(entry) ==
    IF Present(Attrs(entry), "start_at") THEN Attrs(entry).o.start_at
    ELSE IF Present(Attrs(entry), "start_time") THEN Attrs(entry).o.start_time
    ELSE Undef

Parseable(entry) == StartText(entry).t = "string" /\ "iso" \in DOMAIN StartText(entry)

StartInstant(entry) == StartText(entry).iso

\* The events of a 200 response.
Events == Response.body.events

Ascending(events) ==
    \A i, j \in 1..Len(events) :
        i < j => /\ Parseable(events[i]) /\ Parseable(events[j])
                 /\ StartInstant(events[i]) <= StartInstant(events[j])

\* C5 as stated: in every 200 response the events are in ascending order of
\* their start timestamp, whatever the order of the upstream entries.
C5_EventsAscending == Is200 => Ascending(Events)

\* C5 as amended: in every 200 response of a request whose keyword-matched
\* entries all have a parseable start timestamp, the events are in ascending
\* order of their start timestamp, whatever the order of the upstream entries.
C5_EventsAscendingWhenParseable ==
    (Is200 /\ \A i \in 1..Len(matched) : Parseable(matched[i])) => Ascending(Events)

\* Three matched entries with parseable starts arrived out of order and two
\* or more of them were returned.
C5_Witness ==
    /\ Is200
    /\ Len(matched) = 3
    /\ \A i \in 1..Len(matched) : Parseable(matched[i])
    /\ StartInstant(matched[1]) > StartInstant(matched[2])
    /\ StartInstant(matched[2]) > StartInstant(matched[3])
    /\ Len(Events) >= 2

SevenDaysMs == 7 * DayMs

\* C6: the recency stage has one cutoff per request, the request's reading of
\* "now" minus 7 days, and a keyword-matched entry with a parseable start is
\* dropped if and only if its start is earlier than that cutoff: the one
\* starting exactly at the cutoff is kept.
C6_DroppedIffBeforeCutoff ==
    Is200 =>
        /\ oneWeekAgo = now - SevenDaysMs
        /\ SelectSeq(recent, Parseable) =
               SelectSeq(sorted, LAMBDA e : Parseable(e) /\ StartInstant(e) >= now - SevenDaysMs)

\* An entry starting exactly at the cutoff was kept, one starting 6 days ago
\* was kept and one starting 8 days ago was dropped.
C6_Witness ==
    /\ Is200
    /\ \E i \in 1..Len(recent) : StartInstant(recent[i]) = now - SevenDaysMs
    /\ \E i \in 1..Len(recent) : StartInstant(recent[i]) = now - 6 * DayMs
    /\ \E i \in 1..Len(sorted) :
           /\ Parseable(sorted[i])
           /\ StartInstant(sorted[i]) = now - 8 * DayMs
           /\ \A j \in 1..Len(recent) : recent[j] # sorted[i]

\* The `limit` query parameter of the request.
LimitParam == req.query.o.limit

AllDigits(s) == s # <<>> /\ \A i \in 1..Len(s) : s[i] \in {Digits[d] : d \in 1..10}

\* The number a run of digits denotes.
RECURSIVE Denotes(_)
Denotes(ds) ==
    IF ds = <<>> THEN 0
    ELSE 10 * Denotes(SubSeq(ds, 1, Len(ds) - 1))
         + (CHOOSE v \in 0..9 : Digits[v + 1] = ds[Len(ds)])

\* s without its leading white space.
Trimmed(s) ==
    LET spaces == CHOOSE k \in 0..Len(s) :
                      /\ \A i \in 1..k : s[i] = " "
                      /\ (k < Len(s) => s[k + 1] # " ")
    IN  SubSeq(s, spaces + 1, Len(s))

\* s is a base-10 integer: digits, after an optional sign (and white space).
IsInteger(s) ==
    LET r == Trimmed(s)
    IN  \/ AllDigits(r)
        \/ r # <<>> /\ Head(r) \in {"+", "-"} /\ AllDigits(Tail(r))

IntegerValue(s) ==
    LET r == Trimmed(s)
    IN  IF Head(r) = "-" THEN 0 - Denotes(Tail(r))
        ELSE IF Head(r) = "+" THEN Denotes(Tail(r))
        ELSE Denotes(r)

FirstOf(events, n) == [i \in 1..(IF n < Len(events) THEN n ELSE Len(events)) |-> events[i]]

\* C7 as stated: with L the list after the recency filter, a `limit` that is a
\* positive base-10 integer N gives the first min(N, |L|) elements of L, and
\* a `limit` that is absent, non-numeric, zero or negative gives all of L.
C7_LimitTruncates ==
    Is200 =>
        IF LimitParam.t = "string" /\ IsInteger(LimitParam.s)
              /\ IntegerValue(LimitParam.s) > 0
        THEN Events = FirstOf(recent, IntegerValue(LimitParam.s))
        ELSE Events = recent

\* The integer `limit` starts with: white space, an optional sign, digits.
LeadingInteger(s) ==
    LET rest == Trimmed(s)
        body == IF rest # <<>> /\ Head(rest) \in {"+", "-"} THEN Tail(rest) ELSE rest
        run == CHOOSE k \in 0..Len(body) :
                   /\ \A i \in 1..k : AllDigits(<<body[i]>>)
                   /\ (k < Len(body) => ~AllDigits(<<body[k + 1]>>))
    IN  [found |-> run > 0,
         value |-> IF rest # <<>> /\ Head(rest) = "-"
                   THEN 0 - Denotes(SubSeq(body, 1, run))
                   ELSE Denotes(SubSeq(body, 1, run))]

\* C7 as amended: a `limit` that, after leading white space, starts with an
\* optional sign and base-10 digits denoting a positive N (what follows the
\* digits is ignored: "2x" is 2) gives the first min(N, |L|) elements of L;
\* a `limit` that is absent, empty, without such digits, zero or negative
\* gives all of L.
C7_LeadingIntegerTruncates ==
    Is200 =>
        IF LimitParam.t = "string" /\ LeadingInteger(LimitParam.s).found
              /\ LeadingInteger(LimitParam.s).value > 0
        THEN Events = FirstOf(recent, LeadingInteger(LimitParam.s).value)
        ELSE Events = recent

\* limit=2x on a list of three: the first two, in order.
C7_Witness ==
    /\ Is200
    /\ LimitParam = Str(<<"2", "x">>)
    /\ Len(recent) = 3
    /\ Events = <<recent[1], recent[2]>>

\* How often v occurs in the sequence s.
Count(s, v) == Cardinality({i \in 1..Len(s) : s[i] = v})

\* C8: in every 200 response each element of `events` is one of the upstream
\* entries of the request, unchanged and in its original shape, no entry
\* occurs more often than upstream, and `count` is the number of events.
C8_EntriesUntouched ==
    Is200 =>
        /\ \A i \in 1..Len(Events) :
               /\ \E j \in 1..Len(Entries) : Events[i] = Entries[j]
               /\ Count(Events, Events[i]) <= Count(Entries, Events[i])
        /\ Response.body.count = Len(Events)

\* A wrapped entry and an entry with a `location` were returned.
C8_Witness ==
    /\ Is200
    /\ \E i \in 1..Len(Events) : Present(Events[i], "event")
    /\ \E i \in 1..Len(Events) : Text(Events[i], "location") = sRoom
    /\ Response.body.count = 2

\* The upstream answer makes the handler fail: the call fails in transport,
\* the body of a successful answer is not JSON, or the data make the catalog
\* or the filter throw (no data, a tag list or an entry list that is no list,
\* a null entry, tag_ids that are no list).
UpstreamBreaks ==
    \/ upstream.transport = "error"
    \/ upstream.status \in 200..299 /\ ~upstream.jsonOk
    \/ /\ upstream.status \in 200..299 /\ upstream.jsonOk
       /\ \/ upstream.data = Null
          \/ /\ upstream.data.t = "object"
             /\ \/ Present(upstream.data, "tags") /\ upstream.data.o.tags.t = "object"
                \/ Present(upstream.data, "entries") /\ upstream.data.o.entries.t = "object"
                \/ /\ Elements(upstream.data, "entries") # {}
                   /\ \E e \in Elements(upstream.data, "entries") :
                          \/ e = Null
                          \/ /\ e # Null /\ Present(Holder(e, "tag_ids"), "tag_ids")
                             /\ Holder(e, "tag_ids").o.tag_ids.t = "number"
                             /\ Holder(e, "tag_ids").o.tag_ids.n # 0

\* C9: a GET with a key ends in exactly one response and never in a partial
\* success: either 200 with the full envelope, the upstream call having
\* succeeded and the pipeline completed, or one error response without
\* events; a transport failure, an unparseable body or an exception of the
\* pipeline gives 500 {error: "Internal server error", message: <text>}.
C9_OneResponseNoPartialSuccess ==
    Authorized =>
        /\ Len(responses) <= 1
        /\ upstreamCalls <= 1
        /\ Done =>
            /\ Len(responses) = 1
            /\ \/ /\ Response.status = 200
                  /\ DOMAIN Response.body = {"events", "count", "fetched_at"}
                  /\ upstream.transport = "ok" /\ upstream.status \in 200..299
                  /\ upstream.jsonOk /\ ~UpstreamBreaks
                  /\ Events = FirstOf(recent, Len(Events))
               \/ /\ Response.status # 200
                  /\ "error" \in DOMAIN Response.body
                  /\ "events" \notin DOMAIN Response.body
            /\ (UpstreamBreaks
                    \/ (upstream.transport = "ok" /\ upstream.status \in 200..299
                           /\ Response.status # 200)) =>
                  /\ Response.status = 500
                  /\ DOMAIN Response.body = {"error", "message"}
                  /\ Response.body.error = "Internal server error"
                  /\ Response.body.message # ""

\* A null entry among the upstream entries ended the request in the 500.
C9_Witness ==
    /\ Done
    /\ Authorized
    /\ upstream.jsonOk
    /\ Null \in Elements(upstream.data, "entries")
    /\ Response.status = 500
    /\ Response.body.error = "Internal server error"

\* The top-level list under k, when it is a list.
TopList(k) ==
    IF Present(upstream.data, k) /\ upstream.data.o[k].t = "array"
    THEN upstream.data.o[k].l ELSE <<>>

\* The identifier of a catalog entry: api_id, falling back to id; unusable
\* when both are missing (or 0, or empty).
Usable(v) == (v.t = "number" /\ v.n # 0) \/ (v.t = "string" /\ v.s # <<>>)

Identifier(tag) ==
    IF Present(tag, "api_id") /\ Usable(tag.o.api_id) THEN tag.o.api_id
    ELSE IF Present(tag, "id") /\ Usable(tag.o.id) THEN tag.o.id
    ELSE Undef

Inserted(tag) == Identifier(tag) # Undef /\ InlineName(tag) # <<>>

\* The catalog the claim describes for a tag list: identifier -> name for
\* every entry with both, the last entry of an identifier giving its name.
CatalogOf(list) ==
    LET ins == {i \in 1..Len(list) : Inserted(list[i])}
        last(id) == CHOOSE i \in ins :
                        /\ Identifier(list[i]) = id
                        /\ \A j \in ins : Identifier(list[j]) = id => j <= i
    IN  [id \in {Identifier(list[i]) : i \in ins} |-> InlineName(list[last(id)])]

\* C10 as stated: the catalog is built from the first non-empty of `tags` and
\* `tag_list` (tag_list when tags is absent or empty); entries without a
\* usable identifier or a non-empty name are skipped.
C10_CatalogFromFirstNonEmpty ==
    Is200 =>
        tagDictionary = CatalogOf(IF TopList("tags") # <<>> THEN TopList("tags")
                                  ELSE TopList("tag_list"))

\* C10 as amended: the catalog is built from `tags` when the answer has it,
\* even empty, and from `tag_list` only when `tags` is absent; entries
\* without a usable identifier or a non-empty name are skipped.
C10_CatalogFromFirstPresent ==
    Is200 =>
        tagDictionary = CatalogOf(IF Get(upstream.data, "tags") # Undef
                                  THEN TopList("tags") ELSE TopList("tag_list"))

\* With `tags` absent the catalog came from `tag_list`, by the `id` of its
\* entry; with `tags` present an entry was inserted and one was skipped.
C10_Witness ==
    /\ Is200
    /\ \/ /\ Get(upstream.data, "tags") = Undef
          /\ TopList("tag_list") # <<>>
          /\ DOMAIN tagDictionary = {Num(5)}
          /\ ~Present(TopList("tag_list")[1], "api_id")
       \/ /\ Len(TopList("tags")) = 2
          /\ Cardinality(DOMAIN tagDictionary) = 1
          /\ ~Present(TopList("tags")[1], "api_id")
          /\ Present(TopList("tags")[1], "id")

=============================================================================
